---- MODULE Spec2Model ----
(***************************************************************************)
(* A model of app.py: the VBA analyzer (analyze_vba, extract_logic), the   *)
(* report builder (generate_pdf_documentation) and the upload / download   *)
(* handlers.  Text is a sequence of one-character strings, and the regular *)
(* expressions of the source are run by a backtracking matcher with the    *)
(* semantics of Python's re module (leftmost match, alternatives in order, *)
(* greedy and lazy repetition).                                            *)
(***************************************************************************)
EXTENDS Integers, Sequences, FiniteSets, TLC

(***************************************************************************)
(* Characters and character classes                                        *)
(***************************************************************************)
LowerCase == <<"a","b","c","d","e","f","g","h","i","j","k","l","m",
               "n","o","p","q","r","s","t","u","v","w","x","y","z">>
UpperCase == <<"A","B","C","D","E","F","G","H","I","J","K","L","M",
               "N","O","P","Q","R","S","T","U","V","W","X","Y","Z">>
Digits == <<"0","1","2","3","4","5","6","7","8","9">>

Range(f) == {f[x] : x \in DOMAIN f}

\* \w of the re module (ASCII part): letters, digits and the underscore.
WordChars == Range(LowerCase) \cup Range(UpperCase) \cup Range(Digits) \cup {"_"}

\* \s of the re module (ASCII part).
SpaceChars == {" ", "\t", "\n", "\r", "\f"}

\* The case variants of the letters, as re.IGNORECASE folds them.
CaseVariants ==
    [ch \in Range(LowerCase) \cup Range(UpperCase) |->
        LET k == CHOOSE j \in DOMAIN LowerCase : ch \in {LowerCase[j], UpperCase[j]}
        IN  {LowerCase[k], UpperCase[k]}]

Fold(ch) == IF ch \in DOMAIN CaseVariants THEN CaseVariants[ch] ELSE {ch}

InClass(ch, c) ==
    CASE c.k = "in"    -> ch \in c.cs
      [] c.k = "dot"   -> ch # "\n"
      [] c.k = "space" -> ch \in SpaceChars
      [] c.k = "word"  -> ch \in WordChars
      [] c.k = "any"   -> TRUE

(***************************************************************************)
(* Regular expressions: a sequence of alternatives, each a sequence of     *)
(* items.  An item is a character class with a quantifier, an alternation  *)
(* of literals, a word boundary or an end of line.                         *)
(***************************************************************************)
Item(t, c, q, alts) == [t |-> t, c |-> c, q |-> q, alts |-> alts]
NoClass == [k |-> "in", cs |-> {}]
Lit(str)    == Item("lit", NoClass, "1", <<str>>)
LitI(str)   == Item("liti", NoClass, "1", <<str>>)
Dot(q)      == Item("cls", [k |-> "dot", cs |-> {}], q, <<>>)
Space(q)    == Item("cls", [k |-> "space", cs |-> {}], q, <<>>)
Word(q)     == Item("cls", [k |-> "word", cs |-> {}], q, <<>>)
AnyChar(q)  == Item("cls", [k |-> "any", cs |-> {}], q, <<>>)
AltOf(alts) == Item("alt", NoClass, "1", alts)
WordBoundary == Item("wb", NoClass, "1", <<>>)
EndOfLine    == Item("eol", NoClass, "1", <<>>)

\* Op applied to the value of v, which is computed once.
With(v, Op(_)) == CHOOSE y \in {Op(x) : x \in {v}} : TRUE

Fail == <<>>
Cons(i, v) == With(v, LAMBDA r : IF r = Fail THEN Fail ELSE <<i>> \o r)

\* The number of consecutive characters of s from position i that are in class c.
RunLength(s, i, c) ==
    IF i > Len(s) \/ ~InClass(s[i], c) THEN 0
    ELSE LET stops == {j \in i..Len(s) : ~InClass(s[j], c)}
         IN  IF stops = {} THEN Len(s) - i + 1
             ELSE (CHOOSE j \in stops : \A j2 \in stops : j <= j2) - i

IsWordAt(s, i) == i >= 1 /\ i <= Len(s) /\ s[i] \in WordChars

HasLiteralAt(s, i, str) ==
    /\ i + Len(str) - 1 <= Len(s)
    /\ \A j \in 1..Len(str) : s[i + j - 1] = str[j]

\* The literal str at position i of s, whatever the case of the letters.
HasLiteralAtI(s, i, str) ==
    /\ i + Len(str) - 1 <= Len(s)
    /\ \A j \in 1..Len(str) : s[i + j - 1] \in Fold(str[j])

RECURSIVE MatchFrom(_, _, _, _)
RECURSIVE TryCounts(_, _, _, _, _, _, _)
RECURSIVE RestMatches(_, _, _, _)
RECURSIVE TryAlts(_, _, _, _, _)

\* The items re[k..] matched against s from position i: the start position of
\* every item followed by the end of the match, or Fail.
MatchFrom(re, s, k, i) ==
    IF k > Len(re) THEN <<i>>
    ELSE LET it == re[k] IN
      CASE it.t = "lit" ->
             IF HasLiteralAt(s, i, it.alts[1])
             THEN Cons(i, MatchFrom(re, s, k + 1, i + Len(it.alts[1]))) ELSE Fail
        [] it.t = "liti" ->
             IF HasLiteralAtI(s, i, it.alts[1])
             THEN Cons(i, MatchFrom(re, s, k + 1, i + Len(it.alts[1]))) ELSE Fail
        [] it.t = "cls" /\ it.q = "1" ->
             IF i <= Len(s) /\ InClass(s[i], it.c)
             THEN Cons(i, MatchFrom(re, s, k + 1, i + 1)) ELSE Fail
        [] it.t = "cls" /\ it.q = "+" ->
             TryCounts(re, s, k, i, 1, RunLength(s, i, it.c), TRUE)
        [] it.t = "cls" /\ it.q = "*" ->
             TryCounts(re, s, k, i, 0, RunLength(s, i, it.c), TRUE)
        [] it.t = "cls" /\ it.q = "+?" ->
             TryCounts(re, s, k, i, 1, RunLength(s, i, it.c), FALSE)
        [] it.t = "cls" /\ it.q = "*?" ->
             TryCounts(re, s, k, i, 0, RunLength(s, i, it.c), FALSE)
        [] it.t = "alt" -> TryAlts(re, s, k, i, 1)
        [] it.t = "wb" ->
             IF IsWordAt(s, i - 1) # IsWordAt(s, i)
             THEN Cons(i, MatchFrom(re, s, k + 1, i)) ELSE Fail
        [] it.t = "eol" ->
             IF i = Len(s) + 1 \/ (i <= Len(s) /\ s[i] = "\n")
             THEN Cons(i, MatchFrom(re, s, k + 1, i)) ELSE Fail

RestMatches(re, s, k, i) == MatchFrom(re, s, k, i) # Fail

\* Item k repeated between lo and hi times: the largest count (greedy) or the
\* smallest (lazy) after which the rest of the expression matches.
TryCounts(re, s, k, i, lo, hi, greedy) ==
    With({n \in lo..hi : RestMatches(re, s, k + 1, i + n)},
         LAMBDA counts :
            IF counts = {} THEN Fail
            ELSE LET n == IF greedy
                          THEN CHOOSE x \in counts : \A y \in counts : x >= y
                          ELSE CHOOSE x \in counts : \A y \in counts : x <= y
                 IN  <<i>> \o MatchFrom(re, s, k + 1, i + n))

\* The literal alternatives of item k from the a-th on, in order.
TryAlts(re, s, k, i, a) ==
    IF a > Len(re[k].alts) THEN Fail
    ELSE With(IF HasLiteralAt(s, i, re[k].alts[a])
              THEN MatchFrom(re, s, k + 1, i + Len(re[k].alts[a]))
              ELSE Fail,
              LAMBDA r : IF r # Fail THEN <<i>> \o r ELSE TryAlts(re, s, k, i, a + 1))

(***************************************************************************)
(* re.finditer, re.findall and re.split                                    *)
(***************************************************************************)
\* A compiled pattern: its alternatives, and its capture groups as ranges of
\* items <<first, last>> (last = 0: up to the end of the match).
Pattern(alts, groups) == [alts |-> alts, groups |-> groups]

RECURSIVE MatchAt(_, _, _, _)
\* The first alternative of rx, from the a-th on, that matches s at position i.
MatchAt(rx, s, i, a) ==
    IF a > Len(rx.alts) THEN Fail
    ELSE With(MatchFrom(rx.alts[a], s, 1, i),
              LAMBDA r : IF r # Fail THEN r ELSE MatchAt(rx, s, i, a + 1))

GroupText(s, m, g) ==
    SubSeq(s, m[g[1]], (IF g[2] = 0 THEN m[Len(m)] ELSE m[g[2] + 1]) - 1)

MatchObject(rx, s, m) ==
    [start  |-> m[1],
     end    |-> m[Len(m)],
     text   |-> SubSeq(s, m[1], m[Len(m)] - 1),
     groups |-> [g \in 1..Len(rx.groups) |-> GroupText(s, m, rx.groups[g])]]

RECURSIVE MatchesFrom(_, _, _, _)
\* The matches of rx in s that start at the first of the positions starts
\* from pos on, then after the end of that match, and so on.
MatchesFrom(rx, s, starts, pos) ==
    With({p \in starts : p >= pos},
         LAMBDA later :
            IF later = {} THEN <<>>
            ELSE With(MatchAt(rx, s, CHOOSE p \in later : \A p2 \in later : p <= p2, 1),
                      LAMBDA m : <<MatchObject(rx, s, m)>>
                                 \o MatchesFrom(rx, s, starts,
                                        IF m[Len(m)] > m[1] THEN m[Len(m)] ELSE m[1] + 1)))

\* The non-overlapping matches of rx in s from position pos on, left to right.
finditer(rx, s, pos) ==
    MatchesFrom(rx, s, {p \in pos..(Len(s) + 1) : MatchAt(rx, s, p, 1) # Fail}, pos)

\* What re.findall returns for one match: the match, its group, or its groups.
FindallEntry(mo) ==
    CASE Len(mo.groups) = 0 -> mo.text
      [] Len(mo.groups) = 1 -> mo.groups[1]
      [] OTHER              -> mo.groups

findall(rx, s) ==
    With(finditer(rx, s, 1), LAMBDA ms : [k \in 1..Len(ms) |-> FindallEntry(ms[k])])

RECURSIVE SplitFrom(_, _, _, _)
SplitFrom(s, ms, k, prev) ==
    IF k > Len(ms) THEN <<SubSeq(s, prev, Len(s))>>
    ELSE <<SubSeq(s, prev, ms[k].start - 1)>> \o ms[k].groups
         \o SplitFrom(s, ms, k + 1, ms[k].end)

\* re.split: the text between the matches, with the groups of each match
\* (if the pattern has any) in between.
split(rx, s) == With(finditer(rx, s, 1), LAMBDA ms : SplitFrom(s, ms, 1, 1))

\* str.strip(): leading and trailing whitespace removed.
strip(s) ==
    LET keep == {j \in 1..Len(s) : s[j] \notin SpaceChars}
    IN  IF keep = {} THEN <<>>
        ELSE SubSeq(s, CHOOSE j \in keep : \A j2 \in keep : j <= j2,
                       CHOOSE j \in keep : \A j2 \in keep : j >= j2)

(***************************************************************************)
(* The patterns of analyze_vba and extract_logic                           *)
(***************************************************************************)
\* The split pattern with the name captured: r'--- Module: (.+) ---'
SplitPatternWithGroup ==
    Pattern(<< <<Lit(<<"-", "-", "-", " ", "M", "o", "d", "u", "l", "e", ":", " ">>), Dot("+"), Lit(<<" ", "-", "-", "-">>)>> >>, <<<<2, 2>>>>)

\* r'--- Module: .+ ---'
SplitPattern ==
    Pattern(<< <<Lit(<<"-", "-", "-", " ", "M", "o", "d", "u", "l", "e", ":", " ">>), Dot("+"), Lit(<<" ", "-", "-", "-">>)>> >>, <<>>)

\* The name captured lazily: r'--- Module: (.+?) ---'
NamePatternLazy ==
    Pattern(<< <<Lit(<<"-", "-", "-", " ", "M", "o", "d", "u", "l", "e", ":", " ">>), Dot("+?"), Lit(<<" ", "-", "-", "-">>)>> >>, <<<<2, 2>>>>)

\* r'--- Module: (.+) ---'
NamePattern ==
    Pattern(<< <<Lit(<<"-", "-", "-", " ", "M", "o", "d", "u", "l", "e", ":", " ">>), Dot("+"), Lit(<<" ", "-", "-", "-">>)>> >>, <<<<2, 2>>>>)

\* r'(?:Public |Private )?(?:Sub|Function)\s+(\w+)\s*\((.*?)\)' with re.DOTALL
FunctionPattern ==
    Pattern(<< <<AltOf(<<<<"P", "u", "b", "l", "i", "c", " ">>, <<"P", "r", "i", "v", "a", "t", "e", " ">>, <<>>>>),
                 AltOf(<<<<"S", "u", "b">>, <<"F", "u", "n", "c", "t", "i", "o", "n">>>>),
                 Space("+"), Word("+"), Space("*"), Lit(<<"(">>),
                 AnyChar("*?"), Lit(<<")">>)>> >>,
            <<<<4, 4>>, <<7, 7>>>>)

\* r'Dim\s+(\w+)\s+As\s+(\w+)'
VariablePattern ==
    Pattern(<< <<Lit(<<"D", "i", "m">>), Space("+"), Word("+"), Space("+"),
                 Lit(<<"A", "s">>), Space("+"), Word("+")>> >>,
            <<<<3, 3>>, <<7, 7>>>>)

\* r"'(.+)$" with re.MULTILINE
CommentPattern ==
    Pattern(<< <<Lit(<<"'">>), Dot("+"), EndOfLine>> >>, <<<<2, 2>>>>)

\* r'(For\s+.+\s+To\s+.+|Do\s+While\s+.+|Do\s+Until\s+.+|Loop\s+Until\s+.+)'
\* with re.IGNORECASE
LoopPattern ==
    Pattern(<< <<LitI(<<"F", "o", "r">>), Space("+"), Dot("+"), Space("+"),
                 LitI(<<"T", "o">>), Space("+"), Dot("+")>>,
               <<LitI(<<"D", "o">>), Space("+"), LitI(<<"W", "h", "i", "l", "e">>), Space("+"), Dot("+")>>,
               <<LitI(<<"D", "o">>), Space("+"), LitI(<<"U", "n", "t", "i", "l">>), Space("+"), Dot("+")>>,
               <<LitI(<<"L", "o", "o", "p">>), Space("+"), LitI(<<"U", "n", "t", "i", "l">>), Space("+"), Dot("+")>> >>,
            <<<<1, 0>>>>)

\* r'If\s+.+\s+Then\s+.+' with re.IGNORECASE
ConditionPattern ==
    Pattern(<< <<LitI(<<"I", "f">>), Space("+"), Dot("+"), Space("+"),
                 LitI(<<"T", "h", "e", "n">>), Space("+"), Dot("+")>> >>,
            <<>>)

\* r'\bCall\s+(\w+)' with re.IGNORECASE
CallPattern ==
    Pattern(<< <<WordBoundary, LitI(<<"C", "a", "l", "l">>), Space("+"), Word("+")>> >>, <<<<4, 4>>>>)

(***************************************************************************)
(* extract_logic                                                           *)
(***************************************************************************)
\* One pass of extract_logic: what findall returns, with the kind of the pass
\* and the position of each match in the module text.
LogicPass(rx, kind, module_code) ==
    With(finditer(rx, module_code, 1),
         LAMBDA ms : [k \in 1..Len(ms) |->
            [text |-> FindallEntry(ms[k]), kind |-> kind, start |-> ms[k].start]])

RECURSIVE SortByStart(_)
SortByStart(entries) ==
    IF entries = <<>> THEN <<>>
    ELSE LET k == CHOOSE a \in DOMAIN entries :
                    \A b \in DOMAIN entries :
                       \/ entries[a].start < entries[b].start
                       \/ entries[a].start = entries[b].start /\ a <= b
         IN  <<entries[k]>>
             \o SortByStart([j \in 1..(Len(entries) - 1) |->
                                IF j < k THEN entries[j] ELSE entries[j + 1]])

\* The three groups merged in the order of their position in the source.
SourceOrderLogic(loops, conditions, function_calls) ==
    SortByStart(loops \o conditions \o function_calls)

\* logic.extend(loops); logic.extend(conditions); logic.extend(function_calls)
ExtendLogic(loops, conditions, function_calls) ==
    loops \o conditions \o function_calls

extract_logic_entries(module_code) ==
    ExtendLogic(LogicPass(LoopPattern, "loop", module_code),
                LogicPass(ConditionPattern, "condition", module_code),
                LogicPass(CallPattern, "call", module_code))

extract_logic(module_code) ==
    With(extract_logic_entries(module_code),
         LAMBDA entries : [k \in 1..Len(entries) |-> entries[k].text])

(***************************************************************************)
(* analyze_vba                                                             *)
(***************************************************************************)
\* analysis.setdefault(key, value): the first value of a key is kept.
DictSetKeepFirst(d, key, value) ==
    IF \E k \in DOMAIN d : d[k].key = key THEN d
    ELSE Append(d, [key |-> key, value |-> value])

\* The dictionary analysis as the sequence of its items in insertion order;
\* analysis[module_name] = data keeps the position of a key that is present.
DictSet(d, key, value) ==
    IF \E k \in DOMAIN d : d[k].key = key
    THEN [k \in DOMAIN d |-> IF d[k].key = key
                             THEN [key |-> key, value |-> value] ELSE d[k]]
    ELSE Append(d, [key |-> key, value |-> value])

ModuleData(module) ==
    [functions |-> findall(FunctionPattern, module),
     variables |-> findall(VariablePattern, module),
     comments  |-> findall(CommentPattern, module),
     logic     |-> extract_logic(module),
     full_code |-> strip(module)]

RECURSIVE AnalyzeLoop(_, _, _, _)
\* for i, module in enumerate(modules[1:], 0): the analysis, or the IndexError
\* of module_names[i].
AnalyzeLoop(modules, module_names, i, analysis) ==
    IF i + 1 > Len(modules) - 1 THEN [analysis |-> analysis, error |-> FALSE]
    ELSE IF i + 1 > Len(module_names) THEN [analysis |-> analysis, error |-> TRUE]
    ELSE With(DictSet(analysis, module_names[i + 1], ModuleData(modules[i + 2])),
              LAMBDA d : AnalyzeLoop(modules, module_names, i + 1, d))

analyze_vba(vba_code) ==
    With(<<split(SplitPattern, vba_code), findall(NamePattern, vba_code)>>,
         LAMBDA sf :
            With(AnalyzeLoop(sf[1], sf[2], 0, <<>>),
                 LAMBDA r : [modules |-> sf[1], module_names |-> sf[2],
                             analysis |-> r.analysis, error |-> r.error]))

(***************************************************************************)
(* generate_pdf_documentation: the Story handed to doc.build               *)
(***************************************************************************)
Paragraph(text, style) == [type |-> "Paragraph", text |-> text, style |-> style, data |-> <<>>]
Spacer == [type |-> "Spacer", text |-> <<>>, style |-> "", data |-> <<>>]
Table(data) == [type |-> "Table", text |-> <<>>, style |-> "", data |-> data]

RECURSIVE IntToStr(_)
\* str(n) of a natural number, as the f-string formats it.
IntToStr(n) ==
    IF n < 10 THEN <<Digits[n + 1]>>
    ELSE IntToStr(n \div 10) \o <<Digits[(n % 10) + 1]>>

RECURSIVE SplitLines(_)
\* str.split('\n')
SplitLines(s) ==
    IF "\n" \notin Range(s) THEN <<s>>
    ELSE LET j == CHOOSE i \in DOMAIN s :
                     s[i] = "\n" /\ \A i2 \in 1..(i - 1) : s[i2] # "\n"
         IN  <<SubSeq(s, 1, j - 1)>> \o SplitLines(SubSeq(s, j + 1, Len(s)))

\* The number of comments listed verbatim: comments[:10], len(comments) > 10,
\* len(comments) - 10.
CommentLimit == 10

TitleBlock == <<Paragraph(<<"V", "B", "A", " ", "C", "o", "d", "e", " ", "D", "o", "c", "u", "m", "e", "n", "t", "a", "t", "i", "o", "n">>, "Title"), Spacer>>

FunctionsBlock(functions) ==
    IF functions # <<>>
    THEN <<Paragraph(<<"F", "u", "n", "c", "t", "i", "o", "n", "s", " ", "a", "n", "d", " ", "S", "u", "b", "r", "o", "u", "t", "i", "n", "e", "s", ":">>, "Heading2"),
           Table(<< <<<<"N", "a", "m", "e">>, <<"P", "a", "r", "a", "m", "e", "t", "e", "r", "s">>>> >>
                 \o [k \in DOMAIN functions |-> <<functions[k][1], functions[k][2]>>]),
           Spacer>>
    ELSE <<>>

\* The Variables table emitted when the module has functions.
VariablesBlockOnFunctions(module_data) ==
    IF module_data.functions # <<>>
    THEN <<Paragraph(<<"V", "a", "r", "i", "a", "b", "l", "e", "s", ":">>, "Heading2"),
           Table(<< <<<<"N", "a", "m", "e">>, <<"T", "y", "p", "e">>>> >> \o module_data.variables),
           Spacer>>
    ELSE <<>>

VariablesBlock(module_data) ==
    IF module_data.variables # <<>>
    THEN <<Paragraph(<<"V", "a", "r", "i", "a", "b", "l", "e", "s", ":">>, "Heading2"),
           Table(<< <<<<"N", "a", "m", "e">>, <<"T", "y", "p", "e">>>> >> \o module_data.variables),
           Spacer>>
    ELSE <<>>

\* The summary line emitted from the tenth comment on.
CommentsBlockFromLimit(comments) ==
    IF comments # <<>>
    THEN <<Paragraph(<<"C", "o", "m", "m", "e", "n", "t", "s", ":">>, "Heading2")>>
         \o [k \in 1..(IF Len(comments) < CommentLimit THEN Len(comments) ELSE CommentLimit)
                |-> Paragraph(comments[k], "Normal")]
         \o (IF Len(comments) >= CommentLimit
             THEN <<Paragraph(<<".", ".", ".", " ", "a", "n", "d", " ">> \o IntToStr(Len(comments) - CommentLimit)
                              \o <<" ", "m", "o", "r", "e", " ", "c", "o", "m", "m", "e", "n", "t", "s">>, "Normal")>>
             ELSE <<>>)
         \o <<Spacer>>
    ELSE <<>>

CommentsBlock(comments) ==
    IF comments # <<>>
    THEN <<Paragraph(<<"C", "o", "m", "m", "e", "n", "t", "s", ":">>, "Heading2")>>
         \o [k \in 1..(IF Len(comments) < CommentLimit THEN Len(comments) ELSE CommentLimit)
                |-> Paragraph(comments[k], "Normal")]
         \o (IF Len(comments) > CommentLimit
             THEN <<Paragraph(<<".", ".", ".", " ", "a", "n", "d", " ">> \o IntToStr(Len(comments) - CommentLimit)
                              \o <<" ", "m", "o", "r", "e", " ", "c", "o", "m", "m", "e", "n", "t", "s">>, "Normal")>>
             ELSE <<>>)
         \o <<Spacer>>
    ELSE <<>>

LogicBlock(logic_list) ==
    IF logic_list # <<>>
    THEN <<Paragraph(<<"L", "o", "g", "i", "c", ":">>, "Heading2")>>
         \o [k \in DOMAIN logic_list |-> Paragraph(logic_list[k], "Normal")]
         \o <<Spacer>>
    ELSE <<>>

FullCodeBlock(full_code) ==
    With(SplitLines(full_code),
         LAMBDA code_lines :
            <<Paragraph(<<"F", "u", "l", "l", " ", "C", "o", "d", "e", ":">>, "Heading2")>>
            \o [k \in DOMAIN code_lines |-> Paragraph(code_lines[k], "Code")]
            \o <<Spacer>>)

\* The body of the loop over analysis.items().
ModuleSection(module_name, module_data) ==
    <<Paragraph(<<"M", "o", "d", "u", "l", "e", ":", " ">> \o module_name, "Heading1"), Spacer>>
    \o FunctionsBlock(module_data.functions)
    \o VariablesBlock(module_data)
    \o CommentsBlock(module_data.comments)
    \o LogicBlock(module_data.logic)
    \o FullCodeBlock(module_data.full_code)

RECURSIVE ModuleSections(_, _)
ModuleSections(mapping, k) ==
    IF k > Len(mapping) THEN <<>>
    ELSE ModuleSection(mapping[k].key, mapping[k].value) \o ModuleSections(mapping, k + 1)

\* The Story of generate_pdf_documentation(analysis).
BuildStory(mapping) == TitleBlock \o ModuleSections(mapping, 1)

(***************************************************************************)
(* extract_vba and the responses of upload_file                            *)
(***************************************************************************)
RECURSIVE ConcatModules(_, _)
\* for (_, _, vba_filename, vba_code_all) in vba_modules:
\*     vba_code += f"\n\n--- Module: {vba_filename} ---\n"; vba_code += vba_code_all
ConcatModules(vba_modules, k) ==
    IF k > Len(vba_modules) THEN <<>>
    ELSE <<"\n", "\n", "-", "-", "-", " ", "M", "o", "d", "u", "l", "e", ":", " ">> \o vba_modules[k].vba_filename \o <<" ", "-", "-", "-", "\n">>
         \o vba_modules[k].vba_code_all
         \o ConcatModules(vba_modules, k + 1)

\* extract_vba with the parser's exception swallowed: "" is returned.
extract_vba_swallowing(file) ==
    IF file.corrupt \/ file.vba_modules = <<>>
    THEN [raised |-> FALSE, message |-> "", vba_code |-> <<>>]
    ELSE [raised |-> FALSE, message |-> "",
          vba_code |-> ConcatModules(file.vba_modules, 1)]

\* extract_vba(file_path): the text returned, or the RuntimeError raised when
\* VBA_Parser or extract_all_macros raises.
extract_vba(file) ==
    IF file.corrupt
    THEN [raised |-> TRUE,
          message |-> "An error occurred while extracting VBA code: " \o file.detail,
          vba_code |-> <<>>]
    ELSE IF file.vba_modules = <<>>
    THEN [raised |-> FALSE, message |-> "", vba_code |-> <<>>]
    ELSE [raised |-> FALSE, message |-> "",
          vba_code |-> ConcatModules(file.vba_modules, 1)]

\* str.endswith
EndsWith(s, suffix) ==
    Len(s) >= Len(suffix) /\ SubSeq(s, Len(s) - Len(suffix) + 1, Len(s)) = suffix

\* jsonify({'error': message}), status  and  jsonify({'pdf_url': url})
ErrorResponse(status, message) == [status |-> status, error |-> message, pdf_url |-> ""]
PdfResponse(url) == [status |-> 200, error |-> "", pdf_url |-> url]
NoResponse == [status |-> 0, error |-> "", pdf_url |-> ""]

\* A file name of its own for every request.
PdfFilenamePerRequest(r) == "vba_documentation_" \o ToString(r) \o ".pdf"

\* pdf_filename = 'vba_documentation.pdf'
PdfFilename(r) == "vba_documentation.pdf"

(***************************************************************************)
(* State                                                                   *)
(***************************************************************************)
VARIABLES
    module_code,    \* extract_logic: its argument
    logic,          \* extract_logic: the list it returns
    logicEntries,   \* the entries of logic with their kind and source position
    lpc,            \* extract_logic: "off", "call" or "done"
    vba_code,       \* analyze_vba: its argument
    modules,        \* analyze_vba: re.split's result
    module_names,   \* analyze_vba: re.findall's result
    analysis,       \* analyze_vba: the dictionary it builds
    error,          \* analyze_vba: TRUE when module_names[i] raised IndexError
    apc,            \* analyze_vba: "off", "call" or "done"
    report_analysis,\* generate_pdf_documentation: its argument
    Story,          \* generate_pdf_documentation: the Story built
    rpc,            \* generate_pdf_documentation: "off", "call" or "done"
    pc,             \* per request: where upload_file and the download stand
    upload,         \* per request: the uploaded file
    temp_files,     \* the requests whose temporary file exists on disk
    req_vba,        \* per request: vba_code of upload_file
    req_analysis,   \* per request: analysis of upload_file
    response,       \* per request: the response of upload_file
    disk,           \* the report files on disk: file name -> document
    received,       \* per request: the response of download_file
    writes,         \* history: the requests whose build wrote, in order
    seen,           \* history: per request, Len(writes) at its download
    calls           \* history: per request, the functions upload_file called

logicVars == <<module_code, logic, logicEntries, lpc>>
analyzerVars == <<vba_code, modules, module_names, analysis, error, apc>>
reportVars == <<report_analysis, Story, rpc>>
uploadVars == <<pc, upload, temp_files, req_vba, req_analysis, response, disk,
                received, writes, seen, calls>>
vars == <<logicVars, analyzerVars, reportVars, uploadVars>>

LogicOff ==
    module_code = <<>> /\ logic = <<>> /\ logicEntries = <<>> /\ lpc = "off"
AnalyzerOff ==
    /\ vba_code = <<>> /\ modules = <<>> /\ module_names = <<>>
    /\ analysis = <<>> /\ error = FALSE /\ apc = "off"

ReportOff == report_analysis = <<>> /\ Story = <<>> /\ rpc = "off"

NumRequests == 2
Requests == 1..NumRequests

NoUpload == [part |-> FALSE, filename |-> <<>>, corrupt |-> FALSE, detail |-> "",
             vba_modules |-> <<>>]
NoDownload == [status |-> 0, body |-> <<>>]

UploadStart ==
    /\ pc = [r \in Requests |-> "idle"]
    /\ upload = [r \in Requests |-> NoUpload]
    /\ temp_files = {}
    /\ req_vba = [r \in Requests |-> <<>>]
    /\ req_analysis = [r \in Requests |-> <<>>]
    /\ response = [r \in Requests |-> NoResponse]
    /\ disk = <<>>
    /\ received = [r \in Requests |-> NoDownload]
    /\ writes = <<>>
    /\ seen = [r \in Requests |-> 0]
    /\ calls = [r \in Requests |-> {}]

RECURSIVE Flatten(_)
Flatten(ss) == IF ss = <<>> THEN <<>> ELSE Head(ss) \o Flatten(Tail(ss))

\* The texts made of at most max pieces.
TextsOf(pieces, max) ==
    {Flatten(f) : f \in UNION {[1..n -> pieces] : n \in 0..max}}

(***************************************************************************)
(* extract_logic on bounded module texts                                   *)
(***************************************************************************)
MaxLogicLines == 4
\* The lines a module text is made of.
LogicLines ==
    {<<"F", "o", "r", " ", "i", " ", "=", " ", "1", " ", "T", "o", " ", "3", "\n">>, <<"I", "f", " ", "x", " ", "T", "h", "e", "n", " ", "y", " ", "=", " ", "1", "\n">>, <<"I", "f", " ", "x", " ", "T", "h", "e", "n", "\n">>, <<"C", "a", "l", "l", " ", "f", "\n">>, <<"y", " ", "=", " ", "1", "\n">>}

LogicInit ==
    /\ module_code \in TextsOf(LogicLines, MaxLogicLines)
    /\ logic = <<>> /\ logicEntries = <<>> /\ lpc = "call"
    /\ AnalyzerOff /\ ReportOff /\ UploadStart

ExtractLogic ==
    /\ lpc = "call"
    /\ \E entries \in {extract_logic_entries(module_code)} :
           /\ logic' = [k \in 1..Len(entries) |-> entries[k].text]
           /\ logicEntries' = entries
    /\ lpc' = "done"
    /\ UNCHANGED <<module_code, analyzerVars, reportVars, uploadVars>>

SpecLogic == LogicInit /\ [][ExtractLogic]_vars

(***************************************************************************)
(* analyze_vba on bounded blobs                                            *)
(***************************************************************************)
MaxBlobPieces == 4
BlobPieces ==
    {<<"-", "-", "-", " ", "M", "o", "d", "u", "l", "e", ":", " ", "A", " ", "-", "-", "-", "\n">>, <<"-", "-", "-", " ", "M", "o", "d", "u", "l", "e", ":", " ", "B", " ", "-", "-", "-", "\n">>, <<"-", "-", "-", " ", "M", "o", "d", "u", "l", "e", ":", " ", "A", " ", "-", "-", "-">>,
     <<"C", "a", "l", "l", " ", "f">>, <<"'", "c", "\n">>, <<" ", "-", "-", "-">>}

AnalyzerInit ==
    /\ vba_code \in TextsOf(BlobPieces, MaxBlobPieces)
    /\ modules = <<>> /\ module_names = <<>> /\ analysis = <<>>
    /\ error = FALSE /\ apc = "call"
    /\ LogicOff /\ ReportOff /\ UploadStart

AnalyzeVba ==
    /\ apc = "call"
    /\ \E r \in {analyze_vba(vba_code)} :
           /\ modules' = r.modules
           /\ module_names' = r.module_names
           /\ analysis' = r.analysis
           /\ error' = r.error
    /\ apc' = "done"
    /\ UNCHANGED <<vba_code, logicVars, reportVars, uploadVars>>

SpecAnalyzer == AnalyzerInit /\ [][AnalyzeVba]_vars

(***************************************************************************)
(* generate_pdf_documentation on bounded analyses                          *)
(***************************************************************************)
MaxReportModules == 2
MaxComments == 12

\* What a module of the analysis holds: functions, variables and logic or not,
\* and how many comments.
ModuleShapes ==
    {sh \in [f : BOOLEAN, v : BOOLEAN, l : BOOLEAN, c : 0..MaxComments] :
        sh.c > 1 => (sh.f = sh.v /\ sh.v = sh.l)}

ShapeData(sh) ==
    [functions |-> IF sh.f THEN << <<<<"A">>, <<"x", " ", "A", "s", " ", "I", "n", "t", "e", "g", "e", "r">>>> >> ELSE <<>>,
     variables |-> IF sh.v THEN << <<<<"t">>, <<"I", "n", "t", "e", "g", "e", "r">>>> >> ELSE <<>>,
     comments  |-> [i \in 1..sh.c |-> <<"n", "o", "t", "e", " ">> \o IntToStr(i)],
     logic     |-> IF sh.l THEN <<<<"I", "f", " ", "t", " ", "T", "h", "e", "n", " ", "t", " ", "=", " ", "1">>, <<"A">>>> ELSE <<>>,
     full_code |-> IF sh.f THEN <<"S", "u", "b", " ", "A", "(", "x", " ", "A", "s", " ", "I", "n", "t", "e", "g", "e", "r", ")", "\n", "E", "n", "d", " ", "S", "u", "b">> ELSE <<>>]

\* The mapping whose k-th module is named Mod<k> and has the k-th shape.
MappingOf(shapes) ==
    [k \in DOMAIN shapes |-> [key |-> <<"M", "o", "d">> \o IntToStr(k), value |-> ShapeData(shapes[k])]]

ReportInit ==
    /\ report_analysis \in
          {MappingOf(shapes) :
              shapes \in UNION {[1..n -> ModuleShapes] : n \in 0..MaxReportModules}}
    /\ Story = <<>> /\ rpc = "call"
    /\ LogicOff /\ AnalyzerOff /\ UploadStart

GeneratePdfDocumentation ==
    /\ rpc = "call"
    /\ Story' = BuildStory(report_analysis)
    /\ rpc' = "done"
    /\ UNCHANGED <<report_analysis, logicVars, analyzerVars, uploadVars>>

SpecReport == ReportInit /\ [][GeneratePdfDocumentation]_vars

(***************************************************************************)
(* The upload and download handlers, one thread per request                *)
(***************************************************************************)
XlsmFile(corrupt, vba_modules) ==
    [part |-> TRUE, filename |-> <<"b", "o", "o", "k", ".", "x", "l", "s", "m">>, corrupt |-> corrupt,
     detail |-> IF corrupt THEN "not a supported file" ELSE "",
     vba_modules |-> vba_modules]

Macros1 == <<[vba_filename |-> <<"M", "o", "d", "u", "l", "e", "1">>, vba_code_all |-> <<"S", "u", "b", " ", "A", "(", ")", "\n", "E", "n", "d", " ", "S", "u", "b", "\n">>]>>
Macros2 == <<[vba_filename |-> <<"S", "h", "e", "e", "t", "1">>, vba_code_all |-> <<"'", "c", "\n", "C", "a", "l", "l", " ", "f", "\n">>],
             [vba_filename |-> <<"M", "o", "d", "u", "l", "e", "1">>, vba_code_all |-> <<"D", "i", "m", " ", "t", " ", "A", "s", " ", "I", "n", "t", "e", "g", "e", "r", "\n">>]>>

\* The requests a client may send to /upload.
Uploads ==
    {NoUpload,
     [NoUpload EXCEPT !.part = TRUE],
     [NoUpload EXCEPT !.part = TRUE, !.filename = <<"n", "o", "t", "e", "s", ".", "t", "x", "t">>],
     XlsmFile(TRUE, <<>>), XlsmFile(FALSE, <<>>),
     XlsmFile(FALSE, Macros1), XlsmFile(FALSE, Macros2)}

Respond(r, resp) ==
    /\ response' = [response EXCEPT ![r] = resp]
    /\ pc' = [pc EXCEPT ![r] = "done"]

\* upload_file up to file.save(temp_file.name).
UploadFile(r) ==
    /\ pc[r] = "idle"
    /\ \E file \in Uploads :
          /\ upload' = [upload EXCEPT ![r] = file]
          /\ IF ~file.part
             THEN Respond(r, ErrorResponse(400, "No file part")) /\ UNCHANGED temp_files
             ELSE IF file.filename = <<>>
             THEN Respond(r, ErrorResponse(400, "No selected file")) /\ UNCHANGED temp_files
             ELSE IF ~EndsWith(file.filename, <<".", "x", "l", "s", "m">>)
             THEN /\ Respond(r, ErrorResponse(400,
                              "Invalid file type, only .xlsm files are supported"))
                  /\ UNCHANGED temp_files
             ELSE /\ temp_files' = temp_files \cup {r}
                  /\ pc' = [pc EXCEPT ![r] = "saved"]
                  /\ UNCHANGED response
    /\ UNCHANGED <<req_vba, req_analysis, disk, received, writes, seen, calls>>
    /\ UNCHANGED <<logicVars, analyzerVars, reportVars>>

\* vba_code = extract_vba(temp_file.name); if not vba_code: return ..., 400
ExtractVba(r) ==
    /\ pc[r] = "saved"
    /\ calls' = [calls EXCEPT ![r] = @ \cup {"extract_vba"}]
    /\ \E x \in {extract_vba(upload[r])} :
          IF x.raised
          THEN Respond(r, ErrorResponse(500, x.message)) /\ UNCHANGED req_vba
          ELSE IF x.vba_code = <<>>
          THEN /\ Respond(r, ErrorResponse(400, "No VBA code found or an error occurred"))
               /\ UNCHANGED req_vba
          ELSE /\ req_vba' = [req_vba EXCEPT ![r] = x.vba_code]
               /\ pc' = [pc EXCEPT ![r] = "extracted"]
               /\ UNCHANGED response
    /\ UNCHANGED <<upload, temp_files, req_analysis, disk, received, writes, seen>>
    /\ UNCHANGED <<logicVars, analyzerVars, reportVars>>

\* analysis = analyze_vba(vba_code)
AnalyzeUpload(r) ==
    /\ pc[r] = "extracted"
    /\ calls' = [calls EXCEPT ![r] = @ \cup {"analyze_vba"}]
    /\ \E a \in {analyze_vba(req_vba[r])} :
          IF a.error
          THEN Respond(r, ErrorResponse(500, "list index out of range"))
               /\ UNCHANGED req_analysis
          ELSE /\ req_analysis' = [req_analysis EXCEPT ![r] = a.analysis]
               /\ pc' = [pc EXCEPT ![r] = "analyzed"]
               /\ UNCHANGED response
    /\ UNCHANGED <<upload, temp_files, req_vba, disk, received, writes, seen>>
    /\ UNCHANGED <<logicVars, analyzerVars, reportVars>>

\* pdf_filename = generate_pdf_documentation(analysis), doc.build writing the
\* file; return jsonify({'pdf_url': ...}).
GeneratePdf(r) ==
    /\ pc[r] = "analyzed"
    /\ calls' = [calls EXCEPT ![r] = @ \cup {"generate_pdf_documentation"}]
    /\ disk' = [n \in DOMAIN disk \cup {PdfFilename(r)} |->
                  IF n = PdfFilename(r) THEN BuildStory(req_analysis[r]) ELSE disk[n]]
    /\ writes' = Append(writes, r)
    /\ Respond(r, PdfResponse("/download/" \o PdfFilename(r)))
    /\ UNCHANGED <<upload, temp_files, req_vba, req_analysis, received, seen>>
    /\ UNCHANGED <<logicVars, analyzerVars, reportVars>>

\* generate_pdf_documentation raising its RuntimeError: the rendering failed.
GeneratePdfFails(r) ==
    /\ pc[r] = "analyzed"
    /\ calls' = [calls EXCEPT ![r] = @ \cup {"generate_pdf_documentation"}]
    /\ Respond(r, ErrorResponse(500,
          "An error occurred while generating PDF documentation: " \o "cannot write"))
    /\ UNCHANGED <<upload, temp_files, req_vba, req_analysis, disk, received, writes, seen>>
    /\ UNCHANGED <<logicVars, analyzerVars, reportVars>>

\* The name after '/download/' in the pdf_url of a response.
UrlFilename(r) == CHOOSE n \in {PdfFilename(q) : q \in Requests} :
                     response[r].pdf_url = "/download/" \o n

\* download_file(filename) for the pdf_url the requester was given.
DownloadFile(r) ==
    /\ pc[r] = "done"
    /\ response[r].pdf_url # ""
    /\ received' = [received EXCEPT ![r] =
                       IF UrlFilename(r) \in DOMAIN disk
                       THEN [status |-> 200, body |-> disk[UrlFilename(r)]]
                       ELSE [status |-> 500, body |-> <<>>]]
    /\ seen' = [seen EXCEPT ![r] = Len(writes)]
    /\ pc' = [pc EXCEPT ![r] = "downloaded"]
    /\ UNCHANGED <<upload, temp_files, req_vba, req_analysis, response, disk, writes, calls>>
    /\ UNCHANGED <<logicVars, analyzerVars, reportVars>>

UploadInit == UploadStart /\ LogicOff /\ AnalyzerOff /\ ReportOff

UploadNext ==
    \E r \in Requests :
       \/ UploadFile(r)
       \/ ExtractVba(r)
       \/ AnalyzeUpload(r)
       \/ GeneratePdf(r)
       \/ GeneratePdfFails(r)
       \/ DownloadFile(r)

SpecUpload == UploadInit /\ [][UploadNext]_vars

(***************************************************************************)
(* Properties of extract_logic                                             *)
(***************************************************************************)
KindRank(kind) == CASE kind = "loop" -> 1 [] kind = "condition" -> 2 [] kind = "call" -> 3

EntriesOfKind(kind) == SelectSeq(logicEntries, LAMBDA e : e.kind = kind)

\* C3: controlFlowMentions is all loop-header matches, then all conditional
\* matches, then all call-site names, each group in its source order: no
\* conditional or call comes before a loop in the result, wherever it is in
\* the source.
C3_GroupedOrder ==
    lpc = "done" =>
      /\ logic = [k \in 1..Len(logicEntries) |-> logicEntries[k].text]
      /\ \A a, b \in DOMAIN logicEntries :
            a < b =>
              /\ KindRank(logicEntries[a].kind) <= KindRank(logicEntries[b].kind)
              /\ logicEntries[a].kind = logicEntries[b].kind
                    => logicEntries[a].start < logicEntries[b].start
      /\ EntriesOfKind("loop") = LogicPass(LoopPattern, "loop", module_code)
      /\ EntriesOfKind("condition") = LogicPass(ConditionPattern, "condition", module_code)
      /\ EntriesOfKind("call") = LogicPass(CallPattern, "call", module_code)

\* A conditional or a call that precedes a loop in the source, and follows it
\* in the result.
C3_Witness ==
    /\ lpc = "done"
    /\ \E a, b \in DOMAIN logicEntries :
          /\ a < b
          /\ logicEntries[a].kind = "loop"
          /\ logicEntries[b].kind \in {"condition", "call"}
          /\ logicEntries[b].start < logicEntries[a].start

\* C6: no loop-header entry and no conditional entry of controlFlowMentions
\* spans a line break.
C6_SingleLineEntries ==
    lpc = "done" =>
      \A k \in DOMAIN logicEntries :
         logicEntries[k].kind \in {"loop", "condition"}
            => "\n" \notin Range(logicEntries[k].text)

(***************************************************************************)
(* Properties of analyze_vba                                               *)
(***************************************************************************)
DelimPrefix == <<"-", "-", "-", " ", "M", "o", "d", "u", "l", "e", ":", " ">>
DelimSuffix == <<" ", "-", "-", "-">>

\* Where the delimiter that opens at position i of s may close: a " ---" on
\* the same line, after at least one character of name.
DelimCloses(s, i) ==
    {e \in (i + Len(DelimPrefix) + 1)..(Len(s) - Len(DelimSuffix) + 1) :
        /\ HasLiteralAt(s, e, DelimSuffix)
        /\ \A j \in (i + Len(DelimPrefix))..(e - 1) : s[j] # "\n"}

SetMin(S) == CHOOSE x \in S : \A y \in S : x <= y
SetMax(S) == CHOOSE x \in S : \A y \in S : x >= y

RECURSIVE DelimitersFrom(_, _)
\* The delimiters of s from position pos on, left to right: each opens at the
\* first possible position and closes at the last " ---" of its line.
DelimitersFrom(s, pos) ==
    LET opens == {i \in pos..Len(s) :
                     HasLiteralAt(s, i, DelimPrefix) /\ DelimCloses(s, i) # {}}
    IN  IF opens = {} THEN <<>>
        ELSE LET i == SetMin(opens)
                 e == SetMax(DelimCloses(s, i))
             IN  <<[name  |-> SubSeq(s, i + Len(DelimPrefix), e - 1),
                    start |-> i,
                    end   |-> e + Len(DelimSuffix)]>>
                 \o DelimitersFrom(s, e + Len(DelimSuffix))

Delimiters(s) == DelimitersFrom(s, 1)

\* The text that follows the k-th delimiter, up to the next one or the end.
TextAfter(s, D, k) ==
    SubSeq(s, D[k].end, IF k < Len(D) THEN D[k + 1].start - 1 ELSE Len(s))

AllFollowedByText(s, D) == \A k \in DOMAIN D : TextAfter(s, D, k) # <<>>

DistinctNames(D) == \A a, b \in DOMAIN D : D[a].name = D[b].name => a = b

EntryPerDelimiter(D) ==
    /\ ~error
    /\ Len(analysis) = Len(D)
    /\ \A k \in DOMAIN D : analysis[k].key = D[k].name

\* C1 as stated: N delimiters, each followed by non-empty text, give exactly
\* N entries, in the order of the delimiters, named by the captured text.
C1_EntryPerDelimiter ==
    LET D == Delimiters(vba_code)
    IN  (apc = "done" /\ AllFollowedByText(vba_code, D)) => EntryPerDelimiter(D)

\* C1, amended: N delimiters with pairwise distinct names, each followed by
\* non-empty text, give exactly N entries, in the order of the delimiters,
\* named by the captured text.
C1_EntryPerDistinctDelimiter ==
    LET D == Delimiters(vba_code)
    IN  (apc = "done" /\ AllFollowedByText(vba_code, D) /\ DistinctNames(D))
           => EntryPerDelimiter(D)

\* Two delimiters with different names, each followed by text, analyzed.
C1_Witness ==
    LET D == Delimiters(vba_code)
    IN  /\ apc = "done"
        /\ Len(D) >= 2
        /\ AllFollowedByText(vba_code, D)
        /\ DistinctNames(D)
        /\ Len(analysis) = Len(D)

RECURSIVE FirstOccurrences(_)
\* The names of a sequence in the order of their first occurrence.
FirstOccurrences(names) ==
    IF names = <<>> THEN <<>>
    ELSE LET n == Len(names)
             init == FirstOccurrences(SubSeq(names, 1, n - 1))
         IN  IF names[n] \in Range(init) THEN init ELSE Append(init, names[n])

LastWithName(D, name) == SetMax({k \in DOMAIN D : D[k].name = name})

\* C9: the mapping holds one entry per name, with the fields of the last
\* module of that name in the blob, in the order in which the names first
\* appear in the blob.
C9_LastModuleWins ==
    apc = "done" =>
      LET D == Delimiters(vba_code)
      IN  /\ [k \in DOMAIN analysis |-> analysis[k].key]
                = FirstOccurrences([k \in DOMAIN D |-> D[k].name])
          /\ \A k \in DOMAIN analysis :
                analysis[k].value
                   = ModuleData(TextAfter(vba_code, D, LastWithName(D, analysis[k].key)))

\* Two modules of one name with different fields, and another module between.
C9_Witness ==
    LET D == Delimiters(vba_code)
    IN  /\ apc = "done"
        /\ \E a, b, c \in DOMAIN D :
              /\ a < c /\ c < b
              /\ D[a].name = D[b].name
              /\ D[c].name # D[a].name
              /\ ModuleData(TextAfter(vba_code, D, a))
                    # ModuleData(TextAfter(vba_code, D, b))
        /\ Len(analysis) = 2

\* C10: analyze_vba raises no IndexError: the names captured are as many as
\* the text segments that follow a delimiter; a blob without delimiter gives
\* an empty mapping.
C10_NameForEverySegment ==
    apc = "done" =>
      /\ ~error
      /\ Len(module_names) = Len(modules) - 1
      /\ Delimiters(vba_code) = <<>> => analysis = <<>>

\* Several delimiters, the last one followed by empty text.
C10_Witness ==
    /\ apc = "done"
    /\ Len(module_names) >= 2
    /\ modules[Len(modules)] = <<>>
    /\ ~error

(***************************************************************************)
(* Properties of generate_pdf_documentation                                *)
(***************************************************************************)
\* The positions of story, in order, whose flowable satisfies Test.
PositionsWhere(story, Test(_)) ==
    SelectSeq([k \in DOMAIN story |-> k], LAMBDA k : Test(story[k]))

IsHeading1(fl) == fl.type = "Paragraph" /\ fl.style = "Heading1"
IsHeading2(fl) == fl.type = "Paragraph" /\ fl.style = "Heading2"

\* The k-th module section of story: from its Heading1 to the next one.
SectionOf(story, k) ==
    LET h == PositionsWhere(story, IsHeading1)
    IN  SubSeq(story, h[k], IF k < Len(h) THEN h[k + 1] - 1 ELSE Len(story))

HeadingTexts(section) ==
    LET h == PositionsWhere(section, IsHeading2)
    IN  [j \in DOMAIN h |-> section[h[j]].text]

\* The block headings a module section must hold, in order.
ExpectedHeadings(module_data) ==
    (IF module_data.functions # <<>> THEN <<<<"F", "u", "n", "c", "t", "i", "o", "n", "s", " ", "a", "n", "d", " ", "S", "u", "b", "r", "o", "u", "t", "i", "n", "e", "s", ":">>>> ELSE <<>>)
    \o (IF module_data.variables # <<>> THEN <<<<"V", "a", "r", "i", "a", "b", "l", "e", "s", ":">>>> ELSE <<>>)
    \o (IF module_data.comments # <<>> THEN <<<<"C", "o", "m", "m", "e", "n", "t", "s", ":">>>> ELSE <<>>)
    \o (IF module_data.logic # <<>> THEN <<<<"L", "o", "g", "i", "c", ":">>>> ELSE <<>>)
    \o <<<<"F", "u", "l", "l", " ", "C", "o", "d", "e", ":">>>>

\* The flowables of a section after the heading text, up to the next Spacer.
BlockBody(section, text) ==
    LET p == CHOOSE j \in DOMAIN section : IsHeading2(section[j]) /\ section[j].text = text
        q == SetMin({j \in (p + 1)..Len(section) : section[j] = Spacer})
    IN  SubSeq(section, p + 1, q - 1)

TableOf(rows, header) ==
    <<Table(<<header>> \o [j \in DOMAIN rows |-> <<rows[j][1], rows[j][2]>>])>>

SectionAsSpecified(section, module_name, module_data) ==
    /\ section[1] = Paragraph(<<"M", "o", "d", "u", "l", "e", ":", " ">> \o module_name, "Heading1")
    /\ HeadingTexts(section) = ExpectedHeadings(module_data)
    /\ module_data.functions # <<>> =>
          BlockBody(section, <<"F", "u", "n", "c", "t", "i", "o", "n", "s", " ", "a", "n", "d", " ", "S", "u", "b", "r", "o", "u", "t", "i", "n", "e", "s", ":">>)
             = TableOf(module_data.functions, <<<<"N", "a", "m", "e">>, <<"P", "a", "r", "a", "m", "e", "t", "e", "r", "s">>>>)
    /\ module_data.variables # <<>> =>
          BlockBody(section, <<"V", "a", "r", "i", "a", "b", "l", "e", "s", ":">>)
             = TableOf(module_data.variables, <<<<"N", "a", "m", "e">>, <<"T", "y", "p", "e">>>>)
    /\ module_data.logic # <<>> =>
          BlockBody(section, <<"L", "o", "g", "i", "c", ":">>)
             = [j \in DOMAIN module_data.logic |-> Paragraph(module_data.logic[j], "Normal")]
    /\ \A fl \in Range(BlockBody(section, <<"F", "u", "l", "l", " ", "C", "o", "d", "e", ":">>)) :
          fl.type = "Paragraph" /\ fl.style = "Code"
    /\ section[Len(section)] = Spacer

\* C4: the document is the title block, then one section per mapping entry in
\* mapping order; a section holds the Functions table, the Variables table,
\* the Comments block and the Logic block exactly when the field is
\* non-empty, in that order, and ends with the Full Code block; an empty
\* mapping gives the title block alone.
C4_SectionPerModule ==
    rpc = "done" =>
      /\ SubSeq(Story, 1, 2) = <<Paragraph(<<"V", "B", "A", " ", "C", "o", "d", "e", " ", "D", "o", "c", "u", "m", "e", "n", "t", "a", "t", "i", "o", "n">>, "Title"), Spacer>>
      /\ Len(PositionsWhere(Story, IsHeading1)) = Len(report_analysis)
      /\ report_analysis = <<>> => Len(Story) = 2
      /\ report_analysis # <<>> => PositionsWhere(Story, IsHeading1)[1] = 3
      /\ \A k \in DOMAIN report_analysis :
            SectionAsSpecified(SectionOf(Story, k), report_analysis[k].key,
                               report_analysis[k].value)

\* Two sections built, one with the four conditional blocks and one with none.
C4_Witness ==
    /\ rpc = "done"
    /\ \E a, b \in DOMAIN report_analysis :
          /\ a < b
          /\ Len(ExpectedHeadings(report_analysis[a].value)) = 1
          /\ Len(ExpectedHeadings(report_analysis[b].value)) = 5
          /\ Len(HeadingTexts(SectionOf(Story, b))) = 5

RECURSIVE DecimalValue(_)
\* The number a sequence of digits denotes.
DecimalValue(ds) ==
    IF ds = <<>> THEN 0
    ELSE 10 * DecimalValue(SubSeq(ds, 1, Len(ds) - 1))
         + (CHOOSE d \in 0..9 : Digits[d + 1] = ds[Len(ds)])

\* text reads "... and N more comments" with N the decimal numeral of n.
IsSummaryLine(text, n) ==
    LET pre == <<".", ".", ".", " ", "a", "n", "d", " ">>
        post == <<" ", "m", "o", "r", "e", " ", "c", "o", "m", "m", "e", "n", "t", "s">>
        ds == SubSeq(text, Len(pre) + 1, Len(text) - Len(post))
    IN  /\ Len(text) > Len(pre) + Len(post)
        /\ SubSeq(text, 1, Len(pre)) = pre
        /\ SubSeq(text, Len(text) - Len(post) + 1, Len(text)) = post
        /\ \A j \in DOMAIN ds : ds[j] \in Range(Digits)
        /\ (Len(ds) > 1 => ds[1] # "0")
        /\ DecimalValue(ds) = n

CommentsAsSpecified(body, comments) ==
    LET c == Len(comments)
        shown == IF c < 10 THEN c ELSE 10
    IN  /\ Len(body) = shown + (IF c > 10 THEN 1 ELSE 0)
        /\ \A j \in DOMAIN body : body[j].type = "Paragraph" /\ body[j].style = "Normal"
        /\ \A j \in 1..shown : body[j].text = comments[j]
        /\ c > 10 => IsSummaryLine(body[shown + 1].text, c - 10)

\* C5: a module with c >= 1 comments has its first min(c, 10) comments
\* rendered verbatim in source order, followed by the line "... and N more
\* comments" with N = c - 10 exactly when c > 10.
C5_CommentsBlock ==
    rpc = "done" =>
      \A k \in DOMAIN report_analysis :
         report_analysis[k].value.comments # <<>> =>
            CommentsAsSpecified(BlockBody(SectionOf(Story, k), <<"C", "o", "m", "m", "e", "n", "t", "s", ":">>),
                                report_analysis[k].value.comments)

\* A module with 12 comments rendered, and one with exactly 10.
C5_Witness ==
    /\ rpc = "done"
    /\ \E a, b \in DOMAIN report_analysis :
          /\ Len(report_analysis[a].value.comments) = 12
          /\ Len(report_analysis[b].value.comments) = 10
          /\ Len(BlockBody(SectionOf(Story, a), <<"C", "o", "m", "m", "e", "n", "t", "s", ":">>)) = 11
          /\ Len(BlockBody(SectionOf(Story, b), <<"C", "o", "m", "m", "e", "n", "t", "s", ":">>)) = 10

(***************************************************************************)
(* Properties of the upload and download handlers                          *)
(***************************************************************************)
Returned(r) == pc[r] \in {"done", "downloaded"}

\* C2: all report builds return the identifier 'vba_documentation.pdf' and
\* write one file, so a download yields the document of the build that wrote
\* last before it: a requester whose build wrote earlier receives the report
\* of another requester.
C2_LastWriterWins ==
    \A r \in Requests :
       /\ response[r].pdf_url # "" => response[r].pdf_url = "/download/vba_documentation.pdf"
       /\ pc[r] = "downloaded" =>
             /\ seen[r] \in DOMAIN writes
             /\ received[r] =
                   [status |-> 200, body |-> BuildStory(req_analysis[writes[seen[r]]])]

\* Both builds have written, and the requester whose build wrote first has
\* downloaded the other requester's report, which differs from its own.
C2_Witness ==
    \E r, q \in Requests :
       /\ r # q
       /\ Returned(r) /\ Returned(q)
       /\ \E a, b \in DOMAIN writes : a < b /\ writes[a] = r /\ writes[b] = q
       /\ pc[r] = "downloaded"
       /\ writes[seen[r]] = q
       /\ received[r].body = BuildStory(req_analysis[q])
       /\ received[r].body # BuildStory(req_analysis[r])

\* C7: once upload_file has returned its response, the temporary file of the
\* request no longer exists.
C7_TempFileReleased ==
    \A r \in Requests : Returned(r) => r \notin temp_files

IsXlsm(r) == upload[r].part /\ EndsWith(upload[r].filename, <<".", "x", "l", "s", "m">>)
ZeroModules(r) ==
    Returned(r) /\ IsXlsm(r) /\ ~upload[r].corrupt /\ upload[r].vba_modules = <<>>
ExtractionFailed(r) == Returned(r) /\ IsXlsm(r) /\ upload[r].corrupt
RenderingFailed(r) ==
    Returned(r) /\ "generate_pdf_documentation" \in calls[r] /\ r \notin Range(writes)

FailureKind(r) ==
    CASE ZeroModules(r)      -> "no modules"
      [] ExtractionFailed(r) -> "extraction"
      [] RenderingFailed(r)  -> "rendering"
      [] OTHER               -> "none"

\* C8: zero modules, a failed extraction and a failed rendering end in
\* responses that differ from one another and carry no pdf_url; with zero
\* modules or a failed extraction neither analyze_vba nor
\* generate_pdf_documentation is called and the request writes no report.
C8_FailuresDistinguished ==
    /\ \A r \in Requests :
          /\ FailureKind(r) # "none" =>
                /\ response[r].pdf_url = ""
                /\ response[r].status \in {400, 500}
                /\ response[r].error # ""
          /\ FailureKind(r) \in {"no modules", "extraction"} =>
                /\ calls[r] = {"extract_vba"}
                /\ r \notin Range(writes)
    /\ \A r, q \in Requests :
          (FailureKind(r) # "none" /\ FailureKind(q) # "none"
              /\ FailureKind(r) # FailureKind(q))
             => response[r] # response[q]

\* One request rejected for zero modules and another whose extraction failed.
C8_Witness ==
    \E r, q \in Requests :
       /\ ZeroModules(r) /\ ExtractionFailed(q)
       /\ response[r].status = 400 /\ response[q].status = 500
====
